---- MODULE Spec2Model ----
(***************************************************************************)
(* Model of the two crawler programs of the repository:                    *)
(*   src/senaiwebcrawler.py        sequential-pagination listing crawl     *)
(*   src/ideia_senaiwebcrawler.py  detail crawl fed by a saved link list   *)
(* Both are single-threaded; pc is the position inside crawl_all_pages.    *)
(***************************************************************************)
EXTENDS Integers, Sequences, FiniteSets, TLC

\* ------------------------------------------------------------------ bounds
MaxPagesBound == 2      \* max_pages ranges over 1..MaxPagesBound
MaxHeads == 2           \* h3.titulo-18 headings per listing document
MaxAnchors == 1         \* page= anchors per listing document
MaxLinks == 2           \* length of the pre-collected link list
MaxExtractHeads == 3    \* headings of a document handed to extract_idea_data alone
MaxResultLen == 2       \* records of a crawl result handed to save_to_files alone
MaxParas == 3           \* <p> nodes in a detail document

\* ------------------------------------------------------------------ values
\* Python's None.
None == [tag |-> "None"]

\* A listing URL of the challenge: path plus the value of its page= parameter.
ListingUrl(v) == [kind |-> "url", path |-> "desafio", page |-> v]

\* The href of the i-th idea of the listing page served for page= id.
IdeaUrl(id, i) == [kind |-> "url", path |-> "ideia", page |-> 100 * id + i]

\* The three shapes of an <h3 class="titulo-18"> node the extractor meets.
HeadKinds == {"full", "nohref", "nolink"}

Heading(k, id, i) ==
    [a    |-> k # "nolink",
     text |-> IF k = "nolink" THEN None ELSE [tag |-> "text", of |-> <<id, i>>],
     href |-> IF k = "full" THEN IdeaUrl(id, i) ELSE None]

\* Page values an anchor's href may carry: the real pages and 20, whose
\* decimal form starts with that of 2.
AnchorVals == (2..(MaxPagesBound + 1)) \cup {20}

\* The hrefs a pagination anchor may carry: "?page=<v>", and "?page=1#page=2",
\* a link back to the first page whose fragment holds the text page=2
\* (frag = 0: no fragment).
Hrefs == {[page |-> v, frag |-> 0] : v \in AnchorVals} \cup {[page |-> 1, frag |-> 2]}

SeqsUpTo(S, n) == UNION {[1..m -> S] : m \in 0..n}

\* The listing documents the origin may serve for page= id.
ListingDocs(id) ==
    {[tag     |-> "listing",
      heads   |-> [i \in 1..Len(ks) |-> Heading(ks[i], id, i)],
      anchors |-> as] :
        ks \in SeqsUpTo(HeadKinds, MaxHeads), as \in SeqsUpTo(Hrefs, MaxAnchors)}

\* The detail documents the origin may serve: whether a div.destaque exists and
\* holds an <h2>, whether a div with id="detalhes" exists, and how many <p>
\* nodes it holds.
DetailDocs ==
    {[tag |-> "detail", destaque |-> d, detalhes |-> b, paras |-> n] :
        d \in {"none", "noh2", "h2"}, b \in BOOLEAN, n \in 0..MaxParas}

\* The list main() of the detail program hands to the constructor as base_url.
LinkLists == {[kind |-> "list", items |-> [i \in 1..n |-> IdeaUrl(1, i)]] : n \in 0..MaxLinks}

\* ------------------------------------------------------------------ fetch_page
\* session.get on a list is refused by the transport with a RequestException
\* (no scheme / no connection adapter), which fetch_page turns into None; on a
\* URL the origin decides.
FetchOutcomes(target) ==
    IF target.kind = "list" THEN {None}
    ELSE IF target.path = "desafio" THEN {None} \cup ListingDocs(target.page)
    ELSE {None} \cup DetailDocs

\* bool(soup): a BeautifulSoup object is truthy, None is falsy.
Truthy(soup) == soup # None

\* ------------------------------------------------------------------ extract_idea_data (listing)
\* One pass of the for loop: link.find('a') is None for a heading with no
\* link (AttributeError), link.find('a')['href'] raises KeyError for a link
\* with no href; either is caught, logged as a warning and the node skipped.
RECURSIVE ExtractLoop(_, _, _, _)
ExtractLoop(ideas_tag, i, ideas_data, warnings) ==
    IF i > Len(ideas_tag) THEN [data |-> ideas_data, warnings |-> warnings]
    ELSE LET link == ideas_tag[i] IN
         IF ~link.a THEN ExtractLoop(ideas_tag, i + 1, ideas_data, warnings + 1)
         ELSE IF link.href = None THEN ExtractLoop(ideas_tag, i + 1, ideas_data, warnings + 1)
         ELSE ExtractLoop(ideas_tag, i + 1,
                          Append(ideas_data, [idea_titulo |-> link.text, idea_url |-> link.href]),
                          warnings)

extract_idea_data(soup) == ExtractLoop(soup.heads, 1, <<>>, 0)

\* ------------------------------------------------------------------ extract_idea_data (detail)
\* line 46: soup.find('div', class_=...) finds the div.destaque if there is one.
DestaqueFound(soup) == soup.destaque # "none"

\* line 48: soup.find('div', id_=...) filters on an attribute named id_ (only
\* class_ is rewritten by the parser library), which no node has: the filter
\* function is handed None and answers False, so detalhes_tag is None even
\* when the document holds a div with id="detalhes".
DetalhesFound(soup) == soup.detalhes /\ FALSE

\* lines 56-71: the try block.  Line 58 needs destaque_tag and its <h2>, lines
\* 59-61 dereference detalhes_tag; any failure is caught and logged as one
\* warning.  The append of line 66 is commented out, so even a try block that
\* ran to its end would leave ideas_data empty.
extract_detail_data(soup) ==
    LET title_ok == DestaqueFound(soup) /\ soup.destaque = "h2"
        paras_ok == DetalhesFound(soup) /\ soup.paras >= 3
    IN  IF title_ok /\ paras_ok
        THEN [data |-> <<>>, warnings |-> 0]
        ELSE [data |-> <<>>, warnings |-> 1]

\* ------------------------------------------------------------------ find_next_page
RECURSIVE Digits(_)
Digits(n) == IF n < 10 THEN <<n>> ELSE Digits(n \div 10) \o <<n % 10>>

IsPrefix(s, t) == Len(s) <= Len(t) /\ SubSeq(t, 1, Len(s)) = s

\* f'page={next_page}' in href: the text page=<next_page> occurs where the
\* href's page parameter, or its fragment, starts with the digits of next_page.
PageParamIn(next_page, href) ==
    \/ IsPrefix(Digits(next_page), Digits(href.page))
    \/ href.frag # 0 /\ IsPrefix(Digits(next_page), Digits(href.frag))

\* The resolved URL, as the origin sees it: a fragment is not sent.
urljoin(base, href) == [kind |-> "url", path |-> base.path, page |-> href.page]

RECURSIVE AnchorScan(_, _, _, _)
AnchorScan(base, pagination_links, i, next_page) ==
    IF i > Len(pagination_links) THEN None
    ELSE IF PageParamIn(next_page, pagination_links[i])
         THEN urljoin(base, pagination_links[i])
         ELSE AnchorScan(base, pagination_links, i + 1, next_page)

\* f"{scheme}://{netloc}{path}?page={current_page + 1}"
ProbeUrl(base, page) == [kind |-> "url", path |-> base.path, page |-> page + 1]

\* The methods class SenaiWebCrawler defines.
Methods == {"fetch_page", "extract_idea_data", "find_next_page", "crawl_all_pages", "save_to_files"}

\* Mutant of ProbeResult: extract_user_data exists and extracts like
\* extract_idea_data, so a probe that yields a record returns the probed URL.
ProbeResultDefined(url, soup) ==
    IF ~Truthy(soup) THEN None
    ELSE IF extract_idea_data(soup).data # <<>> THEN url
    ELSE None

\* Lines 94-99: `test_soup and self.extract_user_data(test_soup)`.  A falsy
\* test_soup short-circuits; otherwise the attribute lookup of a method the
\* class does not define raises AttributeError, which the bare except swallows.
ProbeResult(url, soup) ==
    IF ~Truthy(soup) THEN None
    ELSE IF "extract_user_data" \notin Methods THEN None
    ELSE IF extract_idea_data(soup).data # <<>> THEN url
    ELSE None

\* ------------------------------------------------------------------ save_to_files / json_extract_links
\* A JSON text is the sequence of its tokens (commas and colons left out).
Punct(c) == [t |-> c, v |-> None]
Key(k) == [t |-> "key", v |-> [tag |-> "key", name |-> k]]
Str(x) == [t |-> "str", v |-> x]
Num(n) == [t |-> "num", v |-> [tag |-> "num", n |-> n]]

RECURSIVE DumpIdeias(_, _)
DumpIdeias(ideias_, i) ==
    IF i > Len(ideias_) THEN <<>>
    ELSE <<Punct("{"), Key("idea_titulo"), Str(ideias_[i].idea_titulo),
           Key("idea_url"), Str(ideias_[i].idea_url), Punct("}")>>
         \o DumpIdeias(ideias_, i + 1)

\* json.dump(data, f, ensure_ascii=False, indent=2)
JsonDump(data) ==
    <<Punct("{"), Key("ideias"), Punct("[")>> \o DumpIdeias(data.ideias, 1)
    \o <<Punct("]"), Key("total_paginas"), Num(data.total_paginas),
         Key("total_ideias"), Num(data.total_ideias), Punct("}")>>

ParseFail == [ok |-> FALSE, val |-> None, next |-> 0]

\* json.load: a recursive-descent reading of one value starting at token i.
RECURSIVE ParseValue(_, _), ParseItems(_, _, _), ParseMembers(_, _, _, _)
ParseValue(ts, i) ==
    IF i > Len(ts) THEN ParseFail
    ELSE IF ts[i].t \in {"str", "num"}
         THEN [ok |-> TRUE, val |-> [j |-> "scalar", v |-> ts[i].v], next |-> i + 1]
    ELSE IF ts[i].t = "[" THEN ParseItems(ts, i + 1, <<>>)
    ELSE IF ts[i].t = "{" THEN ParseMembers(ts, i + 1, <<>>, <<>>)
    ELSE ParseFail

ParseItems(ts, i, acc) ==
    IF i > Len(ts) THEN ParseFail
    ELSE IF ts[i].t = "]" THEN [ok |-> TRUE, val |-> [j |-> "list", items |-> acc], next |-> i + 1]
    ELSE LET r == ParseValue(ts, i) IN
         IF ~r.ok THEN ParseFail ELSE ParseItems(ts, r.next, Append(acc, r.val))

ParseMembers(ts, i, keys, vals) ==
    IF i > Len(ts) THEN ParseFail
    ELSE IF ts[i].t = "}"
         THEN [ok |-> TRUE, val |-> [j |-> "object", keys |-> keys, vals |-> vals], next |-> i + 1]
    ELSE IF ts[i].t # "key" THEN ParseFail
    ELSE LET r == ParseValue(ts, i + 1) IN
         IF ~r.ok THEN ParseFail
         ELSE ParseMembers(ts, r.next, Append(keys, ts[i].v.name), Append(vals, r.val))

\* The whole text must be one value (else JSONDecodeError).
JsonLoad(ts) ==
    LET r == ParseValue(ts, 1) IN
    IF r.ok /\ r.next = Len(ts) + 1 THEN r ELSE ParseFail

HasKey(obj, k) == obj.j = "object" /\ \E i \in 1..Len(obj.keys) : obj.keys[i] = k
GetKey(obj, k) == obj.vals[CHOOSE i \in 1..Len(obj.keys) : obj.keys[i] = k]

\* What is on disk under the name: nothing, bytes that are not UTF-8, or text.
MissingFile == [kind |-> "missing", toks |-> <<>>]
UndecodableFile == [kind |-> "bytes", toks |-> <<>>]
TextFile(ts) == [kind |-> "text", toks |-> ts]

Returned(type, items) == [status |-> "returned", type |-> type, items |-> items]
Raised(exc) == [status |-> "raised", type |-> exc, items |-> <<>>]

\* Mutant of CollectLinks: a link already collected is not appended again.
RECURSIVE CollectLinksUnique(_, _, _)
CollectLinksUnique(ideia_list, i, ideia_links) ==
    IF i > Len(ideia_list) THEN Returned("list", ideia_links)
    ELSE IF ~HasKey(ideia_list[i], "idea_url") THEN Raised("KeyError")
    ELSE LET u == GetKey(ideia_list[i], "idea_url").v IN
         CollectLinksUnique(ideia_list, i + 1,
                            IF \E j \in 1..Len(ideia_links) : ideia_links[j] = u
                            THEN ideia_links ELSE Append(ideia_links, u))

\* lines 168-169 of the detail program: ideia_links.append(ideia['idea_url'])
RECURSIVE CollectLinks(_, _, _)
CollectLinks(ideia_list, i, ideia_links) ==
    IF i > Len(ideia_list) THEN Returned("list", ideia_links)
    ELSE IF ~HasKey(ideia_list[i], "idea_url") THEN Raised("KeyError")
    ELSE CollectLinks(ideia_list, i + 1,
                      Append(ideia_links, GetKey(ideia_list[i], "idea_url").v))

\* json_extract_links: open raises FileNotFoundError on a missing file, the
\* read inside json.load raises UnicodeDecodeError on bytes that are not UTF-8,
\* json.load raises JSONDecodeError on text that is no JSON value; the except
\* clause names FileNotFoundError and JSONDecodeError only and returns {}.
json_extract_links(file) ==
    IF file.kind = "missing" THEN Returned("dict", <<>>)
    ELSE IF file.kind = "bytes" THEN Raised("UnicodeDecodeError")
    ELSE LET r == JsonLoad(file.toks) IN
         IF ~r.ok THEN Returned("dict", <<>>)
         ELSE IF r.val.j # "object" THEN Raised("TypeError")
         ELSE IF ~HasKey(r.val, "ideias") THEN Raised("KeyError")
         ELSE IF GetKey(r.val, "ideias").j # "list" THEN Raised("TypeError")
         ELSE CollectLinks(GetKey(r.val, "ideias").items, 1, <<>>)

\* save_to_files, lines 148-150: the JSON file is written first; what follows
\* (the CSV export) cannot undo it.
save_to_files(data) == TextFile(JsonDump(data))

\* ------------------------------------------------------------------ state
VARIABLES
    mode,           \* "seq": senaiwebcrawler.py, "list": ideia_senaiwebcrawler.py
    base_url,       \* self.base_url
    max_pages,      \* self.max_pages (0 in the detail program, which has none)
    pc,             \* position inside crawl_all_pages
    current_page,
    current_url,
    soup,           \* the document fetched in this iteration, or None
    next_url,       \* what find_next_page returned
    ideias,         \* all_data['ideias']
    total_paginas,  \* all_data['total_paginas']
    total_ideias,   \* all_data['total_ideias']
    events,         \* history: outbound fetches and sleeps, in order
    visited,        \* history: one entry per iteration of the loop
    call            \* a single call of one function, outside a crawl (FnSpec)

crawlVars == <<mode, base_url, max_pages, pc, current_page, current_url, soup, next_url,
               ideias, total_paginas, total_ideias, events, visited>>

vars == <<call, mode, base_url, max_pages, pc, current_page, current_url, soup, next_url,
          ideias, total_paginas, total_ideias, events, visited>>

\* No function call is under way (every state of a crawl).
NoCall == [fn |-> "none", status |-> "none", what |-> "none", arg |-> None,
           file |-> MissingFile, ret |-> None, warnings |-> 0]

FetchEvent(why, target, r) == [ev |-> why, target |-> target, ok |-> Truthy(r)]
SleepEvent == [ev |-> "sleep", target |-> None, ok |-> TRUE]

\* Whether the document carries an anchor whose page value IS page + 1.
HasNextAnchor(doc, page) ==
    /\ Truthy(doc)
    /\ \E i \in 1..Len(doc.anchors) : doc.anchors[i].page = page + 1

\* Whether some anchor of the document passes the test of line 83 for page + 1.
AnchorHit(doc, page) ==
    /\ Truthy(doc)
    /\ \E i \in 1..Len(doc.anchors) : PageParamIn(page + 1, doc.anchors[i])

\* What a probe document holds, read off the document itself: "failed" when the
\* fetch failed, else whether some heading carries a link with text and href.
ProbeYield(doc) ==
    IF ~Truthy(doc) THEN "failed"
    ELSE IF \E i \in 1..Len(doc.heads) : doc.heads[i].a /\ doc.heads[i].href # None
         THEN "records"
         ELSE "empty"

SetLast(log, f, v) == [log EXCEPT ![Len(log)] = [@ EXCEPT ![f] = v]]

Init ==
    /\ mode \in {"seq", "list"}
    /\ IF mode = "seq"
       THEN /\ base_url = ListingUrl(1)
            /\ max_pages \in 1..MaxPagesBound
            /\ pc = "loop"
       ELSE /\ base_url \in LinkLists \cup {IdeaUrl(1, 1)}
            /\ max_pages = 0
            /\ pc = "l_fetch"
    /\ current_page = 1
    /\ current_url = base_url
    /\ soup = None
    /\ next_url = None
    /\ ideias = <<>>
    /\ total_paginas = 0
    /\ total_ideias = 0
    /\ events = <<>>
    /\ visited = <<>>
    /\ call = NoCall

\* ------------------------------------------------------------------ sequential crawl
\* Mutant of LoopTest: the budget test lets one page too many through.
LoopTestOneMore ==
    /\ pc = "loop"
    /\ pc' = IF current_page <= max_pages + 1 THEN "fetch" ELSE "finish"
    /\ UNCHANGED <<call, mode, base_url, max_pages, current_page, current_url, soup, next_url,
                   ideias, total_paginas, total_ideias, events, visited>>

\* Mutant of LoopTest: the budget test written with < instead of <=.
LoopTestOffByOne ==
    /\ pc = "loop"
    /\ pc' = IF current_page < max_pages THEN "fetch" ELSE "finish"
    /\ UNCHANGED <<call, mode, base_url, max_pages, current_page, current_url, soup, next_url,
                   ideias, total_paginas, total_ideias, events, visited>>

\* line 111: while current_page <= self.max_pages
LoopTest ==
    /\ pc = "loop"
    /\ pc' = IF current_page <= max_pages THEN "fetch" ELSE "finish"
    /\ UNCHANGED <<call, mode, base_url, max_pages, current_page, current_url, soup, next_url,
                   ideias, total_paginas, total_ideias, events, visited>>

\* lines 115-118: fetch the current page; break when it fails
FetchPage ==
    /\ pc = "fetch"
    /\ \E r \in FetchOutcomes(current_url) :
        /\ soup' = r
        /\ events' = Append(events, FetchEvent("fetch", current_url, r))
        /\ visited' = Append(visited, [page       |-> current_page,
                                       fetched    |-> Truthy(r),
                                       nextAnchor |-> HasNextAnchor(r, current_page),
                                       anchorHit  |-> AnchorHit(r, current_page),
                                       recs       |-> <<>>,
                                       resolved   |-> FALSE,
                                       probe      |-> "none",
                                       next       |-> None])
        /\ pc' = IF Truthy(r) THEN "extract" ELSE "finish"
    /\ UNCHANGED <<call, mode, base_url, max_pages, current_page, current_url, next_url,
                   ideias, total_paginas, total_ideias>>

\* Mutant of ExtractIdeas: the page's records replace the accumulated ones
\* instead of extending them.
ExtractIdeasOverwrite ==
    /\ pc = "extract"
    /\ LET ideas_data == extract_idea_data(soup).data IN
       IF ideas_data = <<>>
       THEN /\ pc' = "finish"
            /\ UNCHANGED <<ideias, total_paginas, visited>>
       ELSE /\ ideias' = ideas_data
            /\ total_paginas' = current_page
            /\ visited' = SetLast(visited, "recs", ideas_data)
            /\ pc' = "find_next"
    /\ UNCHANGED <<call, mode, base_url, max_pages, current_page, current_url, soup, next_url,
                   total_ideias, events>>

\* Mutant of ExtractIdeas: the page is counted before the test for no record.
ExtractIdeasCountFirst ==
    /\ pc = "extract"
    /\ total_paginas' = current_page
    /\ LET ideas_data == extract_idea_data(soup).data IN
       IF ideas_data = <<>>
       THEN /\ pc' = "finish"
            /\ UNCHANGED <<ideias, visited>>
       ELSE /\ ideias' = ideias \o ideas_data
            /\ visited' = SetLast(visited, "recs", ideas_data)
            /\ pc' = "find_next"
    /\ UNCHANGED <<call, mode, base_url, max_pages, current_page, current_url, soup, next_url,
                   total_ideias, events>>

\* lines 121-127: extract; break on no record; else extend and count the page
ExtractIdeas ==
    /\ pc = "extract"
    /\ LET ideas_data == extract_idea_data(soup).data IN
       IF ideas_data = <<>>
       THEN /\ pc' = "finish"
            /\ UNCHANGED <<ideias, total_paginas, visited>>
       ELSE /\ ideias' = ideias \o ideas_data
            /\ total_paginas' = current_page
            /\ visited' = SetLast(visited, "recs", ideas_data)
            /\ pc' = "find_next"
    /\ UNCHANGED <<call, mode, base_url, max_pages, current_page, current_url, soup, next_url,
                   total_ideias, events>>

\* Mutant of FindNextAnchor: the return of line 84 is lost and the scan always
\* falls through to the probe.
FindNextAnchorAlwaysProbe ==
    /\ pc = "find_next"
    /\ next_url' = None
    /\ pc' = "probe"
    /\ soup' = None
    /\ UNCHANGED <<call, mode, base_url, max_pages, current_page, current_url,
                   ideias, total_paginas, total_ideias, events, visited>>

\* lines 76-84: scan the page= anchors of the document
FindNextAnchor ==
    /\ pc = "find_next"
    /\ LET r == AnchorScan(base_url, soup.anchors, 1, current_page + 1) IN
       IF r # None
       THEN /\ next_url' = r
            /\ pc' = "check_next"
       ELSE /\ next_url' = None
            /\ pc' = "probe"
    /\ soup' = None
    /\ UNCHANGED <<call, mode, base_url, max_pages, current_page, current_url,
                   ideias, total_paginas, total_ideias, events, visited>>

\* Mutant of ProbeNextPage: the records of the probe document are appended.
ProbeNextPageAppends ==
    /\ pc = "probe"
    /\ \E test_soup \in FetchOutcomes(ProbeUrl(base_url, current_page)) :
        /\ events' = Append(events, FetchEvent("probe", ProbeUrl(base_url, current_page), test_soup))
        /\ visited' = SetLast(visited, "probe", ProbeYield(test_soup))
        /\ next_url' = ProbeResult(ProbeUrl(base_url, current_page), test_soup)
        /\ ideias' = IF Truthy(test_soup) THEN ideias \o extract_idea_data(test_soup).data
                                           ELSE ideias
    /\ pc' = "check_next"
    /\ UNCHANGED <<call, mode, base_url, max_pages, current_page, current_url, soup,
                   total_paginas, total_ideias>>

\* lines 87-99: build the URL of the next page, fetch it (test_soup) and decide
ProbeNextPage ==
    /\ pc = "probe"
    /\ \E test_soup \in FetchOutcomes(ProbeUrl(base_url, current_page)) :
        /\ events' = Append(events, FetchEvent("probe", ProbeUrl(base_url, current_page), test_soup))
        /\ visited' = SetLast(visited, "probe", ProbeYield(test_soup))
        /\ next_url' = ProbeResult(ProbeUrl(base_url, current_page), test_soup)
    /\ pc' = "check_next"
    /\ UNCHANGED <<call, mode, base_url, max_pages, current_page, current_url, soup,
                   ideias, total_paginas, total_ideias>>

\* lines 130-133: break when find_next_page returned nothing
CheckNext ==
    /\ pc = "check_next"
    /\ visited' = SetLast(SetLast(visited, "resolved", TRUE), "next", next_url)
    /\ pc' = IF next_url = None THEN "finish" ELSE "advance"
    /\ UNCHANGED <<call, mode, base_url, max_pages, current_page, current_url, soup, next_url,
                   ideias, total_paginas, total_ideias, events>>

\* lines 135-139: advance and sleep
Advance ==
    /\ pc = "advance"
    /\ current_url' = next_url
    /\ current_page' = current_page + 1
    /\ events' = Append(events, SleepEvent)
    /\ pc' = "loop"
    /\ UNCHANGED <<call, mode, base_url, max_pages, soup, next_url, ideias,
                   total_paginas, total_ideias, visited>>

\* Mutant of Finish: the result is returned without counting the records.
FinishNoCount ==
    /\ pc = "finish"
    /\ pc' = "done"
    /\ UNCHANGED <<call, mode, base_url, max_pages, current_page, current_url, soup, next_url,
                   ideias, total_paginas, total_ideias, events, visited>>

\* lines 141-143: count the records and return
Finish ==
    /\ pc = "finish"
    /\ total_ideias' = Len(ideias)
    /\ pc' = "done"
    /\ UNCHANGED <<call, mode, base_url, max_pages, current_page, current_url, soup, next_url,
                   ideias, total_paginas, events, visited>>

\* ------------------------------------------------------------------ detail crawl
\* lines 123-125: fetch base_url; a failure is logged and execution goes on
L_Fetch ==
    /\ pc = "l_fetch"
    /\ \E r \in FetchOutcomes(current_url) :
        /\ soup' = r
        /\ events' = Append(events, FetchEvent("fetch", current_url, r))
    /\ pc' = "l_extract"
    /\ UNCHANGED <<call, mode, base_url, max_pages, current_page, current_url, next_url,
                   ideias, total_paginas, total_ideias, visited>>

\* lines 128-135: extract_idea_data(soup) dereferences soup before its try
\* block (line 46), so a None soup raises AttributeError out of the crawl
L_Extract ==
    /\ pc = "l_extract"
    /\ IF ~Truthy(soup)
       THEN /\ pc' = "raised"
            /\ UNCHANGED <<ideias, total_paginas, current_page>>
       ELSE /\ ideias' = ideias \o extract_detail_data(soup).data
            /\ total_paginas' = current_page
            /\ current_page' = current_page + 1
            /\ pc' = "l_sleep"
    /\ UNCHANGED <<call, mode, base_url, max_pages, current_url, soup, next_url,
                   total_ideias, events, visited>>

\* line 138
L_Sleep ==
    /\ pc = "l_sleep"
    /\ events' = Append(events, SleepEvent)
    /\ pc' = "l_finish"
    /\ UNCHANGED <<call, mode, base_url, max_pages, current_page, current_url, soup, next_url,
                   ideias, total_paginas, total_ideias, visited>>

\* lines 140-142
L_Finish ==
    /\ pc = "l_finish"
    /\ total_ideias' = Len(ideias)
    /\ pc' = "done"
    /\ UNCHANGED <<call, mode, base_url, max_pages, current_page, current_url, soup, next_url,
                   ideias, total_paginas, events, visited>>

Next ==
    \/ LoopTest
    \/ FetchPage
    \/ ExtractIdeas
    \/ FindNextAnchor
    \/ ProbeNextPage
    \/ CheckNext
    \/ Advance
    \/ Finish
    \/ L_Fetch
    \/ L_Extract
    \/ L_Sleep
    \/ L_Finish

Spec == Init /\ [][Next]_vars

\* ------------------------------------------------------------------ single calls
\* The documents handed to extract_idea_data of the listing program.
ExtractDocs ==
    {[tag     |-> "listing",
      heads   |-> [i \in 1..Len(ks) |-> Heading(ks[i], 1, i)],
      anchors |-> <<>>] : ks \in SeqsUpTo(HeadKinds, MaxExtractHeads)}

\* The records the listing extraction emits (lines 51-54), for two pages of two
\* ideas each, and the results crawl_all_pages builds of them (lines 102-141);
\* a record may occur twice, as after a link back to a visited page.
ResultRecords ==
    {[idea_titulo |-> Heading("full", id, i).text, idea_url |-> IdeaUrl(id, i)] :
        id \in 1..2, i \in 1..2}

CrawlResults ==
    {[ideias |-> rs, total_paginas |-> IF rs = <<>> THEN 0 ELSE 1, total_ideias |-> Len(rs)] :
        rs \in SeqsUpTo(ResultRecords, MaxResultLen)}

\* Saved results cut short: every proper prefix of a saved JSON text.
TruncatedFiles ==
    UNION {{TextFile(SubSeq(JsonDump(r), 1, n)) : n \in 0..(Len(JsonDump(r)) - 1)} :
                r \in CrawlResults}

\* JSON texts that are valid but not a saved result: {} and [].
ForeignFiles == {TextFile(<<Punct("{"), Punct("}")>>), TextFile(<<Punct("["), Punct("]")>>)}

Pending(fn, what, arg, file) ==
    [fn |-> fn, status |-> "pending", what |-> what, arg |-> arg, file |-> file,
     ret |-> None, warnings |-> 0]

Calls ==
    {Pending("extract_idea_data", "listing", d, MissingFile) : d \in ExtractDocs}
    \cup {Pending("extract_detail", "detail", d, MissingFile) : d \in DetailDocs}
    \cup {Pending("save_to_files", "result", r, MissingFile) : r \in CrawlResults}
    \cup {Pending("json_extract_links", "missing", None, MissingFile)}
    \cup {Pending("json_extract_links", "undecodable", None, UndecodableFile)}
    \cup {Pending("json_extract_links", "truncated", None, f) : f \in TruncatedFiles}
    \cup {Pending("json_extract_links", "foreign", None, f) : f \in ForeignFiles}

FnInit ==
    /\ call \in Calls
    /\ mode = "fn"
    /\ pc = "idle"
    /\ base_url = None
    /\ max_pages = 0
    /\ current_page = 1
    /\ current_url = None
    /\ soup = None
    /\ next_url = None
    /\ ideias = <<>>
    /\ total_paginas = 0
    /\ total_ideias = 0
    /\ events = <<>>
    /\ visited = <<>>

\* extract_idea_data of the listing program, lines 43-62
X_ExtractListing ==
    /\ call.fn = "extract_idea_data" /\ call.status = "pending"
    /\ LET r == extract_idea_data(call.arg) IN
       call' = [call EXCEPT !.status = "returned",
                            !.ret = Returned("list", r.data),
                            !.warnings = r.warnings]
    /\ UNCHANGED crawlVars

\* extract_idea_data of the detail program, lines 42-71
X_ExtractDetail ==
    /\ call.fn = "extract_detail" /\ call.status = "pending"
    /\ LET r == extract_detail_data(call.arg) IN
       call' = [call EXCEPT !.status = "returned",
                            !.ret = Returned("list", r.data),
                            !.warnings = r.warnings]
    /\ UNCHANGED crawlVars

\* save_to_files, lines 145-161
X_Save ==
    /\ call.fn = "save_to_files" /\ call.status = "pending"
    /\ call' = [call EXCEPT !.status = "saved", !.file = save_to_files(call.arg)]
    /\ UNCHANGED crawlVars

\* json_extract_links, lines 162-174: on a file found on disk, or on the file
\* save_to_files has just written
X_Load ==
    /\ \/ call.fn = "json_extract_links" /\ call.status = "pending"
       \/ call.fn = "save_to_files" /\ call.status = "saved"
    /\ LET r == json_extract_links(call.file) IN
       call' = [call EXCEPT !.status = r.status, !.ret = r]
    /\ UNCHANGED crawlVars

FnNext ==
    \/ X_ExtractListing
    \/ X_ExtractDetail
    \/ X_Save
    \/ X_Load

FnSpec == FnInit /\ [][FnNext]_vars

\* ------------------------------------------------------------------ history views
PageFetches == SelectSeq(events, LAMBDA e : e.ev = "fetch")
OutboundFetches == SelectSeq(events, LAMBDA e : e.ev # "sleep")
Sleeps == SelectSeq(events, LAMBDA e : e.ev = "sleep")

LastVisit == visited[Len(visited)]

\* The records the crawl saw extracted, page after page.
RECURSIVE RecsUpTo(_)
RecsUpTo(n) == IF n = 0 THEN <<>> ELSE RecsUpTo(n - 1) \o visited[n].recs

\* An iteration after which the loop has no reason to stop.
GoesOn(v) == v.fetched /\ v.recs # <<>> /\ v.resolved /\ v.next # None

SetMax(S) == CHOOSE m \in S : \A x \in S : x <= m

SeqReturned == mode = "seq" /\ pc = "done"

\* ------------------------------------------------------------------ claims
\* Every fetch succeeded, every page yielded a record and every page's
\* document carried an anchor for the page after it.
AllPagesGood ==
    \A i \in 1..Len(visited) :
        visited[i].fetched /\ visited[i].recs # <<>> /\ visited[i].nextAnchor

\* C1: when every fetch succeeds, every page yields a record and every page
\* has a next page, a returned sequential crawl has made exactly max_pages
\* fetch+extract cycles, max_pages outbound fetches in all, and reports
\* total_paginas = max_pages.
C1_BudgetEnforcement ==
    (SeqReturned /\ AllPagesGood) =>
        /\ Len(visited) = max_pages
        /\ Len(OutboundFetches) = max_pages
        /\ total_paginas = max_pages

C1_Witness ==
    /\ SeqReturned /\ AllPagesGood
    /\ max_pages >= 2
    /\ Len(visited) = max_pages

\* C2: a returned sequential crawl stopped for exactly one of the four
\* reasons (fetch failed, no record, no next page, budget reached), every
\* earlier iteration had none of them, the crawl never ends by an error, and
\* ideias holds every record appended, in order.
C2_StopReasons ==
    /\ mode = "seq" => pc # "raised"
    /\ SeqReturned =>
        /\ Len(visited) >= 1 /\ Len(visited) <= max_pages
        /\ \A i \in 1..(Len(visited) - 1) : GoesOn(visited[i])
        /\ \/ ~LastVisit.fetched
           \/ LastVisit.fetched /\ LastVisit.recs = <<>> /\ ~LastVisit.resolved
           \/ LastVisit.fetched /\ LastVisit.recs # <<>> /\ LastVisit.resolved
                /\ LastVisit.next = None
           \/ GoesOn(LastVisit) /\ Len(visited) = max_pages
        /\ ideias = RecsUpTo(Len(visited))

C2_Witness ==
    /\ SeqReturned
    /\ Len(visited) = 2
    /\ ~LastVisit.fetched
    /\ Len(ideias) >= 2

\* C3: the detail crawl fetches each URL of its link list exactly once, in
\* list order, and always returns a result.
C3_LinkListIteration ==
    (mode = "list" /\ base_url.kind = "list" /\ Len(base_url.items) >= 1
        /\ pc \in {"done", "raised"}) =>
        /\ pc = "done"
        /\ Len(PageFetches) = Len(base_url.items)
        /\ \A i \in 1..Len(base_url.items) : PageFetches[i].target = base_url.items[i]

\* C4: in both programs crawl_all_pages never ends by an uncaught error, and
\* a crawl with no successful page returns zero pages and zero records.
C4_NeverRaises ==
    /\ pc # "raised"
    /\ (pc = "done" /\ \A i \in 1..Len(PageFetches) : ~PageFetches[i].ok) =>
            (total_paginas = 0 /\ total_ideias = 0)

\* C5: in every reachable state, inside the loop too, total_ideias equals the
\* number of records in ideias.
C5_CountEverywhere == total_ideias = Len(ideias)

\* C6: every result crawl_all_pages returns satisfies
\* total_ideias = len(ideias).
C6_CountOfResult == pc = "done" => total_ideias = Len(ideias)

C6_Witness == SeqReturned /\ Len(ideias) >= 2 /\ Len(visited) = 2

\* C7: the URL the anchor scan returns comes from an anchor whose page value
\* equals current_page + 1.
C7_AnchorIsNextPage ==
    (pc = "check_next" /\ next_url # None) => next_url.page = current_page + 1

\* C8: after a probe, find_next_page returns the probed URL exactly when the
\* probe document yields at least one record.
C8_ProbeDecides ==
    (pc = "check_next" /\ LastVisit.probe # "none") =>
        ((next_url = ProbeUrl(base_url, current_page)) <=> (LastVisit.probe = "records"))

\* C9: when the sequential crawl returns, total_paginas is the index of the
\* last page that was fetched and yielded a record, 0 when there is none.
C9_LastGoodPage ==
    SeqReturned =>
        total_paginas =
            SetMax({0} \cup {visited[i].page : i \in {j \in 1..Len(visited) :
                                visited[j].fetched /\ visited[j].recs # <<>>}})

C9_Witness ==
    /\ SeqReturned
    /\ Len(visited) = 2
    /\ total_paginas = 1
    /\ LastVisit.fetched /\ LastVisit.recs = <<>>

\* C10: in a returned sequential crawl no sleep precedes the first fetch, one
\* sleep separates each two consecutive page fetches, and no sleep follows
\* the iteration on which the loop ends.
C10_SleepPlacement ==
    SeqReturned =>
        /\ events[1].ev = "fetch"
        /\ Len(Sleeps) = Len(PageFetches) - 1
        /\ events[Len(events)].ev # "sleep"

\* C11: in a sequential crawl every outbound fetch after the first, the probe
\* fetch of find_next_page included, directly follows a sleep.
C11_EveryFetchThrottled ==
    mode = "seq" =>
        \A i \in 2..Len(events) : events[i].ev # "sleep" => events[i - 1].ev = "sleep"

CountedPages == {i \in 1..Len(visited) : visited[i].recs # <<>>}

\* C18: at every point of a sequential crawl ideias is the concatenation, in
\* page order, of the record sequences extracted from pages 1..total_paginas;
\* every step leaves ideias a prefix of its next value, and the probe step
\* leaves it unchanged.
C18_AppendOnlyConcat ==
    /\ [](mode = "seq" =>
            /\ CountedPages = 1..total_paginas
            /\ ideias = RecsUpTo(total_paginas))
    /\ [][mode = "seq" => IsPrefix(ideias, ideias')]_vars
    /\ [][pc = "probe" => ideias' = ideias]_vars

C18_Witness ==
    /\ SeqReturned
    /\ total_paginas = 2
    /\ Len(visited[1].recs) = 2 /\ Len(visited[2].recs) = 2
    /\ LastVisit.probe = "records"

ProbeEvents == {i \in 1..Len(events) : events[i].ev = "probe"}

PcRank ==
    CASE pc = "loop" -> 8 [] pc = "fetch" -> 7 [] pc = "extract" -> 6
      [] pc = "find_next" -> 5 [] pc = "probe" -> 4 [] pc = "check_next" -> 3
      [] pc = "advance" -> 2 [] pc = "finish" -> 1 [] OTHER -> 0

Rank == (max_pages + 1 - current_page) * 9 + PcRank

\* C20: whatever the origin does, the sequential loop makes at most max_pages
\* iterations, current_page is 1 plus the number of continued iterations,
\* 0 <= total_paginas <= max_pages, the crawl is never stuck before it has
\* returned, and every step lowers a natural-number measure, so the crawl
\* terminates.
C20_Terminates ==
    /\ [](mode = "seq" =>
            /\ Len(visited) <= max_pages
            /\ current_page = 1 + Len(Sleeps)
            /\ current_page <= max_pages + 1
            /\ 0 <= total_paginas /\ total_paginas <= max_pages
            /\ Rank >= 0
            /\ pc # "done" => ENABLED Next)
    /\ [][mode = "seq" =>
            /\ Rank' < Rank
            /\ current_page' \in {current_page, current_page + 1}]_vars

\* A crawl that followed a link back to an already visited URL and returned.
C20_Witness ==
    /\ SeqReturned
    /\ Len(visited) = max_pages /\ max_pages >= 2
    /\ \E i, j \in 1..Len(PageFetches) : i < j /\ PageFetches[i].target = PageFetches[j].target

\* ------------------------------------------------------------------ claims on single calls
ExtractReturned == call.fn = "extract_idea_data" /\ call.status = "returned"

\* The headings of the document that have a nested link / have none.
Linked(doc) == {i \in 1..Len(doc.heads) : doc.heads[i].a}
Unlinked(doc) == {i \in 1..Len(doc.heads) : ~doc.heads[i].a}

\* C12: for a listing document with k title headings of which m have no
\* nested link, extract_idea_data returns k - m records and logs m warnings.
C12_ListingDegradation ==
    ExtractReturned =>
        /\ Len(call.ret.items) = Len(call.arg.heads) - Cardinality(Unlinked(call.arg))
        /\ call.warnings = Cardinality(Unlinked(call.arg))

CompleteDetail(doc) == doc.destaque = "h2" /\ doc.detalhes /\ doc.paras >= 3

\* C14: detail extraction returns exactly one record for a complete detail
\* document, and no record plus a warning for any other.
C14_DetailAllOrNothing ==
    (call.fn = "extract_detail" /\ call.status = "returned") =>
        IF CompleteDetail(call.arg)
        THEN Len(call.ret.items) = 1
        ELSE Len(call.ret.items) = 0 /\ call.warnings >= 1

C16_LoadFailureIsolated ==
    (call.fn = "json_extract_links" /\ call.status # "pending"
        /\ call.what \in {"missing", "undecodable", "truncated"}) =>
        /\ call.status = "returned"
        /\ call.ret.items = <<>>

====
